---- MODULE Spec2Model ----
(***************************************************************************)
(* Model of agriculture_platform.py.  The AgriculturalOptimizer class      *)
(* (crop-suitability scorer, linear-programming allocator, risk analysis)  *)
(* is followed through one call under the specification Spec, through      *)
(* repeated calls under PuritySpec, and on tables with a maximum of 0 or a *)
(* crop whose name and category disagree under ScorerSpec; the             *)
(* PricePredictor class under PredictorSpec; the user store and the        *)
(* loading of a user's tables under StoreSpec; the chat history under      *)
(* ChatSpec.                                                               *)
(*                                                                         *)
(* Numbers.  The program computes in floating point; the model computes    *)
(* exactly.  Prices, weights, scores and objective coefficients are        *)
(* rationals [n, d] in lowest terms with d > 0; a division by 0 gives      *)
(* [1, 0], [-1, 0] or [0, 0] (inf, -inf, not a number).  Areas handed to   *)
(* program (total_area, planted areas) are whole mu; areas the solver      *)
(* returns are kept in twentieths of a mu (0.15, 0.30, 0.5 and 1.5 times a *)
(* whole number are all whole numbers of twentieths).                      *)
(*                                                                         *)
(* Crop names are tuples of characters, so that the source's test for the  *)
(* bean character in a name is a test on the characters of the name; the   *)
(* characters are written in pinyin and the bean character is "dou".       *)
(***************************************************************************)
EXTENDS Integers, Sequences, FiniteSets, TLC

VARIABLES planting_data, benefit_data, preferences, risk_levels,
          pc, calls, arg_total_area, result, risk_result,
          suitability_scores,
          is_trained, model, scaler, ever_trained, same_fit, predictor_call,
          users_file, session_state, store_call,
          chat_db, chat_call

optimizer_vars == <<planting_data, benefit_data, preferences, risk_levels,
                    pc, calls, arg_total_area, result, risk_result,
                    suitability_scores>>

predictor_vars == <<is_trained, model, scaler, ever_trained, same_fit,
                    predictor_call>>

store_vars == <<users_file, session_state, store_call>>

chat_vars == <<chat_db, chat_call>>

platform_vars == <<store_vars, chat_vars>>

vars == <<optimizer_vars, predictor_vars, platform_vars>>

-----------------------------------------------------------------------------
(* Exact arithmetic *)

Abs(x) == IF x < 0 THEN -x ELSE x

RECURSIVE GCD(_, _)
GCD(a, b) == IF b = 0 THEN a ELSE GCD(b, a % b)

LCM(a, b) == (a \div GCD(a, b)) * b

\* what float division by 0 gives: x/0 is inf for x > 0, -inf for x < 0 and
\* not a number for x = 0; also the mean of no numbers is not a number
NaN == [n |-> 0, d |-> 0]
Inf == [n |-> 1, d |-> 0]
IsFinite(a) == a.d # 0

R(n, d) ==
    IF d = 0 THEN [n |-> IF n > 0 THEN 1 ELSE IF n < 0 THEN -1 ELSE 0, d |-> 0]
    ELSE LET g == GCD(Abs(n), Abs(d))
             s == IF d < 0 THEN -1 ELSE 1
         IN  [n |-> s * (n \div g), d |-> s * (d \div g)]

RInt(k) == [n |-> k, d |-> 1]
RAdd(a, b) ==
    IF IsFinite(a) /\ IsFinite(b)
    THEN LET l == LCM(a.d, b.d)
         IN  R(a.n * (l \div a.d) + b.n * (l \div b.d), l)
    ELSE IF ~IsFinite(a) /\ ~IsFinite(b)
    THEN (IF a = b THEN a ELSE NaN)
    ELSE IF IsFinite(a) THEN b ELSE a
RNeg(a) == [n |-> -a.n, d |-> a.d]
RSub(a, b) == RAdd(a, RNeg(b))
RMul(a, b) ==
    LET x == R(a.n, b.d)
        y == R(b.n, a.d)
    IN  [n |-> x.n * y.n, d |-> x.d * y.d]
RDiv(a, b) == RMul(a, R(b.d, b.n))
RLess(a, b) ==
    IF IsFinite(a) /\ IsFinite(b)
    THEN LET l == LCM(a.d, b.d)
         IN  a.n * (l \div a.d) < b.n * (l \div b.d)
    ELSE a # NaN /\ b # NaN /\ a # b /\ (a = RNeg(Inf) \/ b = Inf)

SetMin(S) == CHOOSE x \in S : \A y \in S : x <= y
SetMax(S) == -SetMin({-x : x \in S})

RECURSIVE SeqSum(_)
SeqSum(s) == IF s = <<>> THEN 0 ELSE Head(s) + SeqSum(Tail(s))

SeqSet(s) == {s[i] : i \in DOMAIN s}

\* a function as an explicit table of its values
Table(f) == f @@ <<>>

RMax(S) == CHOOSE x \in S : \A y \in S : ~RLess(x, y)

-----------------------------------------------------------------------------
(* Input tables.  A benefit-table row carries the columns crop name, yield  *)
(* per mu, cost per mu, unit price and benefit per mu; a planting-table row *)
(* carries crop name and planted area (the other planting columns are not   *)
(* read by the optimizer).                                                  *)

XiaoMai == <<"xiao", "mai">>
HuangDou == <<"huang", "dou">>
LvDou   == <<"lv", "dou">>
YuMi    == <<"yu", "mi">>

\* benefit per mu as load_user_or_sample_data derives it
BenefitRow(name, yield, cost, price) ==
    [crop_name |-> name, yield_per_mu |-> yield, cost_per_mu |-> cost,
     unit_price |-> price,
     benefit_per_mu |-> RSub(RMul(RInt(yield), price), RInt(cost))]

Wheat == BenefitRow(XiaoMai, 600, 500, R(3, 2))
Soy   == BenefitRow(HuangDou, 400, 400, R(3, 1))
Mung  == BenefitRow(LvDou, 300, 0, R(2, 1))
Corn  == BenefitRow(YuMi, 200, 500, R(1, 1))

Catalogue == <<Wheat, Soy, Mung, Corn>>

\* a table without the cost column
MalformedRow == [crop_name |-> XiaoMai, yield_per_mu |-> 600,
                 unit_price |-> R(3, 2), benefit_per_mu |-> RInt(400)]

MaxPlots == 2

RECURSIVE Pick(_, _)
Pick(s, S) ==
    IF s = <<>> THEN <<>>
    ELSE LET rest == Pick(Tail(s), {i - 1 : i \in S \ {1}})
         IN  IF 1 \in S THEN <<Head(s)>> \o rest ELSE rest

\* crop names are a unique key of the benefit table; the rows of a table
\* are listed in the order of the catalogue
\* and cost, like yield and benefit, is not 0 in every row
BenefitTables ==
    {t \in {Pick(Catalogue, S) : S \in SUBSET DOMAIN Catalogue} :
        t = <<>> \/ \E i \in DOMAIN t : t[i].cost_per_mu # 0}
    \cup {<<MalformedRow>>}

PlantingRow(name, area) == [crop_name |-> name, area |-> area]

PlantingRows ==
    {PlantingRow(XiaoMai, 80), PlantingRow(XiaoMai, 10), PlantingRow(HuangDou, 0),
     PlantingRow(YuMi, 40)}

PlantingTables == UNION {[1..k -> PlantingRows] : k \in 0..MaxPlots}

TotalAreas == {0, 20, 100}

-----------------------------------------------------------------------------
(* AgriculturalOptimizer.__init__ *)

RiskLevels ==
    [very_conservative |-> R(1, 10), conservative |-> R(3, 10),
     balanced |-> R(5, 10), aggressive |-> R(7, 10),
     very_aggressive |-> R(9, 10)]

Weights(e, s, u) ==
    [economic_weight |-> R(e, 10), stability_weight |-> R(s, 10),
     sustainability_weight |-> R(u, 10)]

Tier(t) == [risk_level |-> t]

\* the preferences of a new account
DefaultPreferences == Tier("balanced") @@ Weights(6, 3, 1)

PreferenceSets ==
    {Tier("balanced") @@ Weights(6, 3, 1),
     Tier("unknown") @@ Weights(10, 10, 10),
     Weights(6, 3, 1),
     Tier("conservative") @@ [economic_weight |-> R(6, 10)]}

NoResult == [status |-> "none"]

\* RandomForestRegressor(...), StandardScaler(): nothing fitted yet
Unfitted == [fitted |-> FALSE]

NoCall == [op |-> "none"]

\* Python's None, and a value x held where None may be held
None == [none |-> TRUE]
Some(x) == [some |-> x]
IsNone(v) == "none" \in DOMAIN v

\* a file that does not exist
NoFile == [exists |-> FALSE]

\* st.session_state: logged_in and, when logged in, username
LoggedOut == [logged_in |-> FALSE]
LoggedIn(username) == [logged_in |-> TRUE, username |-> username]

\* no users.json and no chat_history.json yet, nobody logged in
PlatformInit ==
    /\ users_file = NoFile
    /\ session_state = LoggedOut
    /\ store_call = NoCall
    /\ chat_db = NoFile
    /\ chat_call = NoCall

\* PricePredictor.__init__; ever_trained records whether a train call has
\* succeeded on the instance, and same_fit whether the scaler and the model
\* are as one train call left them (or as __init__ did)
PricePredictorInit ==
    /\ model = Unfitted
    /\ scaler = Unfitted
    /\ same_fit = TRUE
    /\ is_trained = FALSE
    /\ ever_trained = FALSE
    /\ predictor_call = NoCall

Init ==
    /\ PricePredictorInit
    /\ PlatformInit
    /\ planting_data \in PlantingTables
    /\ benefit_data \in BenefitTables
    /\ preferences \in PreferenceSets
    /\ risk_levels = RiskLevels
    /\ pc = "constructed"
    /\ calls = 0
    /\ arg_total_area = 0
    /\ result = NoResult
    /\ risk_result = NoResult
    /\ suitability_scores = NoResult

-----------------------------------------------------------------------------
(* calculate_crop_suitability *)

contains_dou(name) == \E i \in DOMAIN name : name[i] = "dou"

Column(t, c) == {t[i][c] : i \in DOMAIN t}

\* a sum of two without the division by 2 (mutant)
Whole(a) == a

Half(a) == RDiv(a, RInt(2))

RowScore(t, crop) ==
    LET max_cost == RInt(SetMax(Column(t, "cost_per_mu")))
        max_yield == RInt(SetMax(Column(t, "yield_per_mu")))
        max_benefit == RMax(Column(t, "benefit_per_mu"))
        economic_score == RDiv(crop.benefit_per_mu, max_benefit)
        cost_stability == RSub(RInt(1), RDiv(RInt(crop.cost_per_mu), max_cost))
        yield_stability == RDiv(RInt(crop.yield_per_mu), max_yield)
        stability_score == Half(RAdd(cost_stability, yield_stability))
        sustainability_bonus ==
            IF contains_dou(crop.crop_name) THEN R(3, 10) ELSE R(1, 10)
        cost_sustainability == cost_stability
        sustainability_score == Half(RAdd(sustainability_bonus, cost_sustainability))
    IN  RAdd(RMul(economic_score, R(4, 10)),
             RAdd(RMul(stability_score, R(3, 10)),
                  RMul(sustainability_score, R(3, 10))))

\* the dictionary keeps the score of the last row of each name
calculate_crop_suitability(t) ==
    Table([name \in Column(t, "crop_name") |->
        LET last == SetMax({i \in DOMAIN t : t[i].crop_name = name})
        IN  RowScore(t, t[last])])

-----------------------------------------------------------------------------
(* optimize_planting_plan: the linear program *)

\* a diversity cap of 45% and a continuity floor of 25% (mutants)
MaxCropPercent45   == 30 + 15
MinChangePercent25 == 50 - 25

MinBeanPercent   == 15
MaxCropPercent   == 30
MinChangePercent == 50
MaxChangePercent == 150
CostScale        == 2000

\* percent of a whole number of mu, in twentieths of a mu
Pct(percent, area) == (percent * 20 * area) \div 100

crops(t) == Table([i \in DOMAIN t |-> t[i].crop_name])

\* the area of the last plot of each crop instead of the sum (mutant)
current_planting_last(p) ==
    Table([name \in Column(p, "crop_name") |->
        p[SetMax({i \in DOMAIN p : p[i].crop_name = name})].area])

\* groupby(crop name)[area].sum()
current_planting(p) ==
    Table([name \in Column(p, "crop_name") |->
        SeqSum([i \in DOMAIN p |->
                   IF p[i].crop_name = name THEN p[i].area ELSE 0])])

\* the first row of the crop
crop_data(t, crop) ==
    t[CHOOSE i \in DOMAIN t :
        /\ t[i].crop_name = crop
        /\ \A j \in DOMAIN t : t[j].crop_name = crop => i <= j]

\* a factor that changes sign with the tier (mutant)
risk_factor_centered(prefs, levels) ==
    IF prefs.risk_level \in DOMAIN levels
    THEN RSub(levels[prefs.risk_level], R(5, 10))
    ELSE R(5, 10)

risk_factor(prefs, levels) ==
    IF prefs.risk_level \in DOMAIN levels THEN levels[prefs.risk_level]
    ELSE R(5, 10)

crop_value(t, prefs, levels, crop) ==
    LET row == crop_data(t, crop)
        economic_value == RMul(row.benefit_per_mu, prefs.economic_weight)
        stability_value ==
            RMul(RSub(RInt(1), R(row.cost_per_mu, CostScale)),
                 prefs.stability_weight)
        sustainability_value ==
            RMul(calculate_crop_suitability(t)[crop],
                 prefs.sustainability_weight)
    IN  RMul(RAdd(economic_value, RAdd(stability_value, sustainability_value)),
             risk_factor(prefs, levels))

SumOver(X, names) == SeqSum([i \in DOMAIN names |-> X[names[i]]])

bean_crops(t) == SelectSeq(crops(t), contains_dou)

RECURSIVE SetGCD(_)
SetGCD(S) ==
    IF S = {} THEN 0
    ELSE LET x == CHOOSE x \in S : TRUE IN GCD(x, SetGCD(S \ {x}))

RECURSIVE SetLCM(_)
SetLCM(S) ==
    IF S = {} THEN 1
    ELSE LET x == CHOOSE x \in S : TRUE IN LCM(x, SetLCM(S \ {x}))

\* The objective coefficients times their common denominator: whole
\* numbers in the same proportions.
ObjectiveCoefficients(t, prefs, levels) ==
    CHOOSE coef \in
        {Table([c \in DOMAIN value |->
             value[c].n * (SetLCM({value[x].d : x \in DOMAIN value}) \div value[c].d)]) :
           value \in {Table([c \in SeqSet(crops(t)) |->
                                crop_value(t, prefs, levels, c)])}} :
        TRUE

\* The rows of the problem are bounds on single variables and two nested
\* sums with unit coefficients, so every basic solution (what the simplex
\* solver returns) has all its coordinates in the set of multiples of the
\* greatest common divisor of the right-hand sides.
GridStep(t, p, total_area) ==
    SetGCD({20 * total_area, Pct(MinBeanPercent, total_area),
            Pct(MaxCropPercent, total_area)}
           \cup {Pct(MinChangePercent, current_planting(p)[c]) :
                   c \in DOMAIN current_planting(p) \cap SeqSet(crops(t))}
           \cup {Pct(MaxChangePercent, current_planting(p)[c]) :
                   c \in DOMAIN current_planting(p) \cap SeqSet(crops(t))})

\* The problem as lines 704-756 build it: the crop list, the bean crops
\* among it, the current planting by crop name, the objective coefficients.
LpProblem(t, p, prefs, levels, total_area) ==
    [names |-> crops(t),
     beans |-> bean_crops(t),
     current |-> current_planting(p),
     coef |-> ObjectiveCoefficients(t, prefs, levels),
     step |-> GridStep(t, p, total_area),
     total_area |-> total_area]

\* the constraints without the total-area row (mutant)
ConstraintsNoBudget(X, prob) ==
    /\ prob.beans # <<>> =>
          SumOver(X, prob.beans) >= Pct(MinBeanPercent, prob.total_area)
    /\ \A i \in DOMAIN prob.names :
          X[prob.names[i]] <= Pct(MaxCropPercent, prob.total_area)
    /\ \A c \in DOMAIN prob.current \cap DOMAIN X :
          /\ X[c] >= Pct(MinChangePercent, prob.current[c])
          /\ X[c] <= Pct(MaxChangePercent, prob.current[c])

\* the constraints without the bean-rotation row (mutant)
ConstraintsNoRotation(X, prob) ==
    /\ SumOver(X, prob.names) <= 20 * prob.total_area
    /\ \A i \in DOMAIN prob.names :
          X[prob.names[i]] <= Pct(MaxCropPercent, prob.total_area)
    /\ \A c \in DOMAIN prob.current \cap DOMAIN X :
          /\ X[c] >= Pct(MinChangePercent, prob.current[c])
          /\ X[c] <= Pct(MaxChangePercent, prob.current[c])

\* the constraints without the continuity floor (mutant)
ConstraintsNoFloor(X, prob) ==
    /\ SumOver(X, prob.names) <= 20 * prob.total_area
    /\ prob.beans # <<>> =>
          SumOver(X, prob.beans) >= Pct(MinBeanPercent, prob.total_area)
    /\ \A i \in DOMAIN prob.names :
          X[prob.names[i]] <= Pct(MaxCropPercent, prob.total_area)
    /\ \A c \in DOMAIN prob.current \cap DOMAIN X :
          X[c] <= Pct(MaxChangePercent, prob.current[c])

\* the constraints with the bean-rotation row added even when no crop is a
\* bean crop (mutant)
ConstraintsRotationAlways(X, prob) ==
    /\ SumOver(X, prob.names) <= 20 * prob.total_area
    /\ SumOver(X, prob.beans) >= Pct(MinBeanPercent, prob.total_area)
    /\ \A i \in DOMAIN prob.names :
          X[prob.names[i]] <= Pct(MaxCropPercent, prob.total_area)
    /\ \A c \in DOMAIN prob.current \cap DOMAIN X :
          /\ X[c] >= Pct(MinChangePercent, prob.current[c])
          /\ X[c] <= Pct(MaxChangePercent, prob.current[c])

\* the constraints with a continuity row for every planted crop, a crop
\* without a decision variable counting as area 0 (mutant)
ConstraintsEveryPlanted(X, prob) ==
    /\ SumOver(X, prob.names) <= 20 * prob.total_area
    /\ prob.beans # <<>> =>
          SumOver(X, prob.beans) >= Pct(MinBeanPercent, prob.total_area)
    /\ \A i \in DOMAIN prob.names :
          X[prob.names[i]] <= Pct(MaxCropPercent, prob.total_area)
    /\ \A c \in DOMAIN prob.current :
          \A area \in {IF c \in DOMAIN X THEN X[c] ELSE 0} :
              /\ area >= Pct(MinChangePercent, prob.current[c])
              /\ area <= Pct(MaxChangePercent, prob.current[c])

\* the constraints of the problem on an assignment X of areas (twentieths of
\* a mu) to the decision variables
Constraints(X, prob) ==
    /\ SumOver(X, prob.names) <= 20 * prob.total_area
    /\ prob.beans # <<>> =>
          SumOver(X, prob.beans) >= Pct(MinBeanPercent, prob.total_area)
    /\ \A i \in DOMAIN prob.names :
          X[prob.names[i]] <= Pct(MaxCropPercent, prob.total_area)
    /\ \A c \in DOMAIN prob.current \cap DOMAIN X :
          /\ X[c] >= Pct(MinChangePercent, prob.current[c])
          /\ X[c] <= Pct(MaxChangePercent, prob.current[c])

\* LpVariable.dicts("CropArea", crops, lowBound=0): one variable per distinct
\* name, never negative; here with the values a basic solution can take
\* under the diversity cap
Assignments(prob) ==
    {[c \in DOMAIN Y |-> prob.step * Y[c]] :
        Y \in [SeqSet(prob.names) ->
                 0..(IF prob.step = 0 THEN 0
                     ELSE Pct(MaxCropPercent, prob.total_area) \div prob.step)]}

\* objective += crop_value * crop_areas[crop], for each row; the areas are
\* counted in grid steps
Objective(X, prob) ==
    IF prob.step = 0 THEN 0
    ELSE SeqSum([i \in DOMAIN prob.names |->
                    prob.coef[prob.names[i]] * (X[prob.names[i]] \div prob.step)])

\* prob.solve(): the feasible assignments of maximal objective (LpMaximize);
\* none when the problem is infeasible.  The problem is never unbounded:
\* every variable lies between 0 and the diversity cap.
Solve(prob) ==
    UNION {IF DOMAIN obj = {} THEN {}
           ELSE UNION {{X \in DOMAIN obj : obj[X] = best} :
                          best \in {SetMax({obj[Z] : Z \in DOMAIN obj})}} :
             obj \in {Table([X \in {X \in Assignments(prob) : Constraints(X, prob)}
                              |-> Objective(X, prob)])}}

RECURSIVE RSeqSum(_)
RSeqSum(s) == IF s = <<>> THEN RInt(0) ELSE RAdd(Head(s), RSeqSum(Tail(s)))

\* a filter that keeps the crops of area 0 (mutant)
AllocatesZero(area) == area >= 0

\* if area > 0: the crops the result lists
Allocates(area) == area > 0

\* the result dictionary built from an optimal assignment
\* the share of the total area as a fraction, not in percent (mutant)
percentage_fraction(area, total_area) == RDiv(area, RInt(total_area))

\* (area / total_area) * 100
percentage(area, total_area) ==
    RMul(RDiv(area, RInt(total_area)), RInt(100))

ExtractResult(X, t, p, total_area) ==
    LET names == crops(t)
        current == current_planting(p)
        area(c) == R(X[c], 20)
        benefit(c) == crop_data(t, c).benefit_per_mu
        new_total_benefit ==
            RSeqSum([i \in DOMAIN names |->
                IF Allocates(X[names[i]]) THEN RMul(benefit(names[i]), area(names[i]))
                ELSE RInt(0)])
        current_total_benefit ==
            RSeqSum([i \in DOMAIN names |->
                IF Allocates(X[names[i]]) /\ names[i] \in DOMAIN current
                THEN RMul(benefit(names[i]), RInt(current[names[i]]))
                ELSE RInt(0)])
    IN  [status |-> "optimal",
         total_area |-> total_area,
         allocated_area |->
            SeqSum([i \in DOMAIN names |->
                       IF Allocates(X[names[i]]) THEN X[names[i]] ELSE 0]),
         crop_allocations |->
            [c \in {c \in SeqSet(names) : Allocates(X[c])} |->
                [area |-> X[c],
                 expected_benefit |-> RMul(benefit(c), area(c)),
                 percentage |-> percentage(area(c), total_area)]],
         expected_improvement |->
            IF RLess(RInt(0), current_total_benefit)
            THEN RMul(RDiv(RSub(new_total_benefit, current_total_benefit),
                           current_total_benefit), RInt(100))
            ELSE RInt(0)]

Raise(e) == [raised |-> TRUE, exception |-> e]
Return(v) == [raised |-> FALSE, value |-> v]

WeightKeys == <<"economic_weight", "stability_weight", "sustainability_weight">>

\* prob.solve() on an objective with a coefficient that is infinite or not a
\* number.  What PuLP and CBC make of such a coefficient the source does not
\* determine: the solve may raise, may end with a status other than Optimal,
\* or may report any basic feasible point as the optimum.
solve_undefined(t, p, total_area) ==
    LET prob == [names |-> crops(t), beans |-> bean_crops(t),
                 current |-> current_planting(p),
                 step |-> GridStep(t, p, total_area),
                 total_area |-> total_area]
    IN  {Raise("PulpSolverError"),
         Return([status |-> "infeasible", message |-> "no feasible solution"])}
        \cup {IF total_area = 0 /\ \E c \in DOMAIN X : Allocates(X[c])
              THEN Raise("ZeroDivisionError: float division by zero")
              ELSE Return(ExtractResult(X, t, p, total_area)) :
                 X \in {X \in Assignments(prob) : Constraints(X, prob)}}

\* the body of the try block: what it returns or raises
optimize_body(t, p, prefs, levels, total_area) ==
    LET missing == SelectSeq(WeightKeys, LAMBDA k : k \notin DOMAIN prefs)
    IN  IF \E i \in DOMAIN t : "cost_per_mu" \notin DOMAIN t[i]
        THEN {Raise("KeyError: cost_per_mu")}
        ELSE IF "risk_level" \notin DOMAIN prefs
        THEN {Raise("KeyError: risk_level")}
        ELSE IF t # <<>> /\ missing # <<>>
        THEN {Raise("KeyError: " \o Head(missing))}
        ELSE IF \E c \in SeqSet(crops(t)) :
                   ~IsFinite(crop_value(t, prefs, levels, c))
        THEN solve_undefined(t, p, total_area)
        ELSE UNION
               {IF solutions # {}
                THEN {IF total_area = 0 /\ \E c \in DOMAIN X : Allocates(X[c])
                      THEN Raise("ZeroDivisionError: float division by zero")
                      ELSE Return(ExtractResult(X, t, p, total_area)) :
                         X \in solutions}
                ELSE {Return([status |-> "infeasible",
                              message |-> "no feasible solution"])} :
                  solutions \in
                     {Solve(prob) :
                         prob \in {LpProblem(t, p, prefs, levels, total_area)}}}

\* a handler that lets the exception through (mutant)
except_handler_reraise(outcome) ==
    IF outcome.raised
    THEN [status |-> "raised", exception |-> outcome.exception]
    ELSE outcome.value

\* except Exception as e
except_handler(outcome) ==
    IF outcome.raised
    THEN [status |-> "error", message |-> outcome.exception]
    ELSE outcome.value

\* an allocator that keeps the plan it found and returns it again (mutant)
optimize_planting_plan_cached(t, p, prefs, levels, total_area) ==
    IF result.status = "optimal" THEN {result}
    ELSE {except_handler(o) : o \in optimize_body(t, p, prefs, levels, total_area)}

optimize_planting_plan(t, p, prefs, levels, total_area) ==
    {except_handler(o) : o \in optimize_body(t, p, prefs, levels, total_area)}

-----------------------------------------------------------------------------
(* risk_analysis *)

\* the sum of f over the crops of S, f a function to rationals
RECURSIVE RSumOver(_, _)
RSumOver(f, S) ==
    IF S = {} THEN RInt(0)
    ELSE LET c == CHOOSE c \in S : TRUE IN RAdd(f[c], RSumOver(f, S \ {c}))

RiskScale == 1000

\* a return on investment with no guard: 0/0 where nothing is invested
\* (mutant)
roi_unguarded(total_expected_return, total_investment) ==
    IF total_investment.n # 0
    THEN RMul(RDiv(total_expected_return, total_investment), RInt(100))
    ELSE NaN

roi(total_expected_return, total_investment) ==
    IF RLess(RInt(0), total_investment)
    THEN RMul(RDiv(total_expected_return, total_investment), RInt(100))
    ELSE RInt(0)

\* a mean weighted by the investments (mutant)
overall_risk_weighted(risk_scores) ==
    LET weight == RSumOver([c \in DOMAIN risk_scores |->
                               risk_scores[c].investment], DOMAIN risk_scores)
    IN  IF weight.n = 0 THEN NaN
        ELSE RDiv(RSumOver([c \in DOMAIN risk_scores |->
                               RMul(risk_scores[c].risk_score,
                                    risk_scores[c].investment)],
                           DOMAIN risk_scores), weight)

\* np.mean([v['risk_score'] for v in risk_scores.values()])
overall_risk(risk_scores) ==
    IF DOMAIN risk_scores = {} THEN NaN
    ELSE RDiv(RSumOver([c \in DOMAIN risk_scores |->
                           risk_scores[c].risk_score], DOMAIN risk_scores),
              RInt(Cardinality(DOMAIN risk_scores)))

\* the entry of one crop; the area of an allocation is in twentieths of a mu
crop_risk(t, crop, allocation) ==
    LET row == crop_data(t, crop)
        cost_risk == R(row.cost_per_mu, RiskScale)
        yield_risk ==
            RSub(RInt(1), R(row.yield_per_mu, SetMax(Column(t, "yield_per_mu"))))
    IN  [risk_score |-> RDiv(RAdd(cost_risk, yield_risk), RInt(2)),
         investment |-> RMul(RInt(row.cost_per_mu), R(allocation.area, 20)),
         expected_return |-> RMul(row.benefit_per_mu, R(allocation.area, 20))]

risk_analysis(t, crop_allocations) ==
    CHOOSE report \in
        {[overall_risk |-> overall_risk(risk_scores),
          total_investment |-> invested,
          total_expected_return |-> returned,
          roi |-> roi(returned, invested),
          crop_risks |-> risk_scores] :
            <<risk_scores, invested, returned>> \in
               {<<scores,
                  RSumOver([c \in DOMAIN scores |-> scores[c].investment],
                           DOMAIN scores),
                  RSumOver([c \in DOMAIN scores |-> scores[c].expected_return],
                           DOMAIN scores)>> :
                    scores \in {Table([c \in DOMAIN crop_allocations |->
                                   crop_risk(t, c, crop_allocations[c])])}}} :
        TRUE

-----------------------------------------------------------------------------

\* a call of optimize_planting_plan(total_area) on the instance
Call(total_area) ==
    /\ calls' = calls + 1
    /\ pc' = "returned"
    /\ result' \in optimize_planting_plan(benefit_data, planting_data,
                                          preferences, risk_levels, total_area)
    /\ arg_total_area' = total_area
    /\ risk_result' = NoResult
    /\ UNCHANGED <<planting_data, benefit_data, preferences, risk_levels,
                   suitability_scores>>
    /\ UNCHANGED <<predictor_vars, platform_vars>>

ScorerColumns == {"crop_name", "yield_per_mu", "cost_per_mu", "benefit_per_mu"}

\* optimizer.calculate_crop_suitability() at the call site, where no handler
\* surrounds it: a column that is missing raises
scorer_outcome(t) ==
    IF \E i \in DOMAIN t : ~(ScorerColumns \subseteq DOMAIN t[i])
    THEN Raise("KeyError")
    ELSE Return(calculate_crop_suitability(t))

CalculateCropSuitability ==
    /\ pc = "constructed"
    /\ pc' = "scored"
    /\ suitability_scores' = scorer_outcome(benefit_data)
    /\ UNCHANGED <<planting_data, benefit_data, preferences, risk_levels,
                   calls, arg_total_area, result, risk_result>>
    /\ UNCHANGED <<predictor_vars, platform_vars>>

\* create_planner builds an optimizer and calls optimize_planting_plan on it
\* once
OptimizePlantingPlan ==
    \E total_area \in TotalAreas : pc = "constructed" /\ Call(total_area)

\* display_real_optimization_result: an optimal result is shown with the
\* risk analysis of its allocations
RiskAnalysis ==
    /\ pc = "returned"
    /\ result.status = "optimal"
    /\ pc' = "analysed"
    /\ risk_result' = risk_analysis(benefit_data, result.crop_allocations)
    /\ UNCHANGED <<planting_data, benefit_data, preferences, risk_levels,
                   calls, arg_total_area, result, suitability_scores>>
    /\ UNCHANGED <<predictor_vars, platform_vars>>

Next == OptimizePlantingPlan \/ RiskAnalysis \/ CalculateCropSuitability

Spec == Init /\ [][Next]_vars

-----------------------------------------------------------------------------
(* The same instance called more than once *)

MaxCalls == 2

\* an optimizer over a planting table of one plot at most
PurityInit == Init /\ Len(planting_data) <= 1

\* a further call of optimize_planting_plan on an instance that has
\* returned a result before
OptimizeAgain ==
    \E total_area \in TotalAreas :
        /\ pc # "constructed"
        /\ calls < MaxCalls
        /\ Call(total_area)

PurityNext == OptimizePlantingPlan \/ OptimizeAgain \/ RiskAnalysis

PuritySpec == PurityInit /\ [][PurityNext]_vars

-----------------------------------------------------------------------------
(* The scorer called on its own, as the planner page calls it, and the       *)
(* allocator, on tables whose columns have a maximum of 0 and on crops       *)
(* whose name and category disagree about being a legume.  A planting row    *)
(* here carries its crop-type column.                                        *)

TuDou == <<"tu", "dou">>
HuaSheng == <<"hua", "sheng">>

Potato == BenefitRow(TuDou, 2000, 800, R(1, 1))
Peanut == BenefitRow(HuaSheng, 300, 450, R(4, 1))
\* a crop that yields nothing, and a crop that earns what it costs
Fallow == BenefitRow(XiaoMai, 0, 500, R(3, 2))
BreakEven == BenefitRow(XiaoMai, 250, 500, R(2, 1))

ScorerTables ==
    {<<Wheat, Soy>>, <<Soy, Corn>>, <<Wheat, Potato, Peanut>>,
     <<Mung>>, <<Fallow>>, <<BreakEven, Corn>>, <<MalformedRow>>}

TaggedRow(name, crop_type, area) ==
    PlantingRow(name, area) @@ [crop_type |-> crop_type]

ScorerPlantingTables ==
    {<<>>,
     <<TaggedRow(XiaoMai, "grain", 20), TaggedRow(HuangDou, "grain (legume)", 0)>>,
     <<TaggedRow(TuDou, "vegetable", 10), TaggedRow(HuaSheng, "oil (legume)", 10)>>}

ScorerPreferenceSets ==
    {DefaultPreferences, Tier("aggressive") @@ Weights(10, 0, 0)}

ScorerInit ==
    /\ PricePredictorInit
    /\ PlatformInit
    /\ planting_data \in ScorerPlantingTables
    /\ benefit_data \in ScorerTables
    /\ preferences \in ScorerPreferenceSets
    /\ risk_levels = RiskLevels
    /\ pc = "constructed"
    /\ calls = 0
    /\ arg_total_area = 0
    /\ result = NoResult
    /\ risk_result = NoResult
    /\ suitability_scores = NoResult

ScorerNext == CalculateCropSuitability \/ OptimizePlantingPlan

ScorerSpec == ScorerInit /\ [][ScorerNext]_vars

-----------------------------------------------------------------------------
(* PricePredictor *)

\* a table without the price column
PricelessRow == [crop_name |-> XiaoMai, yield_per_mu |-> 600,
                 cost_per_mu |-> 500]

\* a row whose price cell is empty: pandas reads it as not a number
BlankPriceRow == [crop_name |-> YuMi, yield_per_mu |-> 800,
                  cost_per_mu |-> 600, unit_price |-> NaN]

TrainTables ==
    {<<>>, <<PricelessRow>>, <<Wheat, Soy>>, <<Wheat>>,
     <<Wheat, BlankPriceRow>>}

MaxMonths == 3

\* datetime.now(), to the month
Nows == {[year |-> 2026, month |-> 11], [year |-> 2026, month |-> 12]}

\* the k-th month end from a date on: pd.date_range(..., freq='M')
AddMonths(date, k) ==
    [year |-> date.year + (date.month - 1 + k) \div 12,
     month |-> ((date.month - 1 + k) % 12) + 1]

FutureDates == {AddMonths(now, k) : now \in Nows, k \in 0..(MaxMonths - 1)}

\* what a fitted model may output for a date: a price below the floor or
\* one above it
RawPrices == {R(-1, 1), R(2, 1)}

\* the fitted scaler and forest: a function of the features (month, year).
\* The training data is drawn with np.random, so any such function can be
\* the outcome of a fit.
FittedModels == {[fitted |-> TRUE, predict |-> f] : f \in [FutureDates -> RawPrices]}

\* the month ends from 2020-01-01 to 2024-01-01
SamplesPerCrop == 48

\* Where train(t) faults.  "data": create_synthetic_data reads name and
\* price of every crop, and the features are columns of the data built from
\* them (a table without rows gives data without columns).  "fit": a price
\* that is not a finite number gives a target that model.fit rejects, after
\* the scaler was fitted.  "none": no fault.
train_fault(t) ==
    IF \/ t = <<>>
       \/ \E i \in DOMAIN t : \/ "crop_name" \notin DOMAIN t[i]
                                \/ "unit_price" \notin DOMAIN t[i]
    THEN "data"
    ELSE IF \E i \in DOMAIN t : ~IsFinite(t[i].unit_price)
    THEN "fit"
    ELSE "none"

\* scaler.fit_transform(features): the features are the months and years of
\* the same dates for every crop, so the mean and the scale are those of the
\* dates whatever the table, and the fitted scaler differs from another by
\* the number of samples it has seen
fit_transform(t) ==
    [fitted |-> TRUE,
     n_samples_seen |-> SamplesPerCrop * Cardinality(Column(t, "crop_name"))]

PriceFloor == R(1, 10)

\* the raw prediction as it is (mutant)
floor_price_none(predicted_price) == predicted_price

\* max(predicted_price, 0.1)
floor_price(predicted_price) ==
    IF RLess(predicted_price, PriceFloor) THEN PriceFloor ELSE predicted_price

\* the forecast of a fitted scaler and model
forecast(fitted_scaler, fitted_model, months, now) ==
    IF months > 0 /\ ~(fitted_scaler.fitted /\ fitted_model.fitted)
    THEN Raise("NotFittedError")
    ELSE Return([rows |->
            [i \in 1..months |->
                [date |-> AddMonths(now, i - 1),
                 predicted_price |->
                    floor_price(fitted_model.predict[AddMonths(now, i - 1)])]]])

\* predict without the test of is_trained (mutant)
predict_unguarded(trained, fitted_scaler, fitted_model, crop, months, now) ==
    forecast(fitted_scaler, fitted_model, months, now)

\* predict that knows the crops of the sample only (mutant)
predict_known_crop(trained, fitted_scaler, fitted_model, crop, months, now) ==
    IF ~trained \/ (crop # XiaoMai /\ crop # HuangDou)
    THEN Return(None)
    ELSE forecast(fitted_scaler, fitted_model, months, now)

\* predict(crop, months), called at the time now on an instance with the
\* given is_trained, scaler and model; the crop is not read
predict(trained, fitted_scaler, fitted_model, crop, months, now) ==
    IF ~trained
    THEN Return(None)
    ELSE forecast(fitted_scaler, fitted_model, months, now)

PredictorInit ==
    /\ PricePredictorInit
    /\ PlatformInit
    /\ planting_data = <<>>
    /\ benefit_data = <<>>
    /\ preferences = Tier("balanced") @@ Weights(6, 3, 1)
    /\ risk_levels = RiskLevels
    /\ pc = "constructed"
    /\ calls = 0
    /\ arg_total_area = 0
    /\ result = NoResult
    /\ risk_result = NoResult
    /\ suitability_scores = NoResult

\* train(benefit_data): what it returns and which of scaler and model it
\* has fitted by then; a fault is caught and reported as False
train(t) ==
    [value |-> train_fault(t) = "none",
     fits_scaler |-> train_fault(t) # "data",
     fits_model |-> train_fault(t) = "none"]

Train ==
    \E t \in TrainTables :
        LET done == train(t)
        IN  /\ scaler' = IF done.fits_scaler THEN fit_transform(t) ELSE scaler
            /\ IF done.fits_model
               THEN model' \in FittedModels
               ELSE model' = model
            /\ is_trained' = (is_trained \/ done.value)
            /\ ever_trained' = (ever_trained \/ done.value)
            /\ same_fit' = IF done.fits_scaler THEN done.fits_model
                           ELSE same_fit
            /\ predictor_call' = [op |-> "train", value |-> done.value]
            /\ UNCHANGED <<optimizer_vars, platform_vars>>

PredictCrops == {XiaoMai, HuangDou, YuMi}

Predict ==
    \E crop \in PredictCrops, months \in 0..MaxMonths, now \in Nows :
        /\ predictor_call' =
              [op |-> "predict", after |-> predictor_call.op,
               crop |-> crop, months |-> months, now |-> now,
               outcome |-> predict(is_trained, scaler, model, crop, months,
                                   now)]
        /\ UNCHANGED <<is_trained, model, scaler, ever_trained, same_fit>>
        /\ UNCHANGED <<optimizer_vars, platform_vars>>

PredictorNext == Train \/ Predict

PredictorSpec == PredictorInit /\ [][PredictorNext]_vars

-----------------------------------------------------------------------------
(* The user store users.json and the loading of a user's tables.  The file  *)
(* holds a dict from username to account record; a dict is a function on    *)
(* the set of its keys.  An account's farm_info and created_at, which no    *)
(* operation below reads, are left out of the record, as is the plot-type   *)
(* column of a benefit row.  The records hold strings, numbers, booleans,   *)
(* None, lists and dicts with string keys only, which json.dump and         *)
(* json.load give back as they were.                                        *)

EmptyDict == <<>>

Put(dict, key, value) ==
    [k \in DOMAIN dict \cup {key} |-> IF k = key THEN value ELSE dict[k]]

\* the digest of a password: one digest per password
hash_password(password) == <<"sha256", password>>

load_users(file) == IF file = NoFile THEN EmptyDict ELSE file

NoUserData == [planting_data |-> None, benefit_data |-> None]

\* two of the five predefined accounts, which differ in their names only
PREDEFINED_ACCOUNTS ==
    [u \in {"lsf", "ch"} |->
        [password |-> hash_password("123456"), user_type |-> "admin",
         preferences |-> DefaultPreferences, user_data |-> NoUserData,
         is_predefined |-> TRUE, redeemed |-> TRUE]]

\* the record register_user stores for a new user
NewAccount(password, user_type) ==
    [password |-> hash_password(password), user_type |-> user_type,
     preferences |-> DefaultPreferences, user_data |-> NoUserData]

\* an operation on the store gives back a value and the file it leaves
Stored(value, file) == [value |-> value, file |-> file]

\* the mutation of register_user that writes the record whether or not the
\* username is taken
register_user_overwrite(file, username, password, user_type) ==
    Stored(<<TRUE, "registered">>,
           Put(load_users(file), username, NewAccount(password, user_type)))

register_user(file, username, password, user_type) ==
    LET users == load_users(file)
    IN  IF username \in DOMAIN users
        THEN Stored(<<FALSE, "username exists">>, file)
        ELSE Stored(<<TRUE, "registered">>,
                    Put(users, username, NewAccount(password, user_type)))

\* a predefined account found in the store is marked is_predefined and keeps
\* its other fields
init_users(file) ==
    LET users == load_users(file)
        marked(account, account_info) ==
            ([is_predefined |-> TRUE] @@ account)
                @@ [redeemed |-> account_info.redeemed]
    IN  IF DOMAIN users = {}
        THEN PREDEFINED_ACCOUNTS
        ELSE [u \in DOMAIN users \cup DOMAIN PREDEFINED_ACCOUNTS |->
                IF u \notin DOMAIN PREDEFINED_ACCOUNTS THEN users[u]
                ELSE IF u \notin DOMAIN users THEN PREDEFINED_ACCOUNTS[u]
                ELSE marked(users[u], PREDEFINED_ACCOUNTS[u])]

\* an account record with the user_data entry added when it has none
with_user_data(account) == account @@ [user_data |-> NoUserData]

verify_user(file, username, password) ==
    LET users == load_users(file)
    IN  IF /\ username \in DOMAIN users
           /\ users[username].password = hash_password(password)
        THEN IF "user_data" \in DOMAIN users[username]
             THEN Stored(<<TRUE, users[username]>>, file)
             ELSE Stored(<<TRUE, with_user_data(users[username])>>,
                         Put(users, username, with_user_data(users[username])))
        ELSE Stored(<<FALSE, None>>, file)

save_user_data(file, username, data_type, data) ==
    LET users == load_users(file)
    IN  IF username \in DOMAIN users
        THEN LET account == with_user_data(users[username])
             IN  Stored(TRUE,
                    Put(users, username,
                        [account EXCEPT !.user_data[data_type] = data]))
        ELSE Stored(FALSE, file)

get_user_data(file, username, data_type) ==
    LET users == load_users(file)
    IN  IF username \in DOMAIN users
        THEN IF "user_data" \in DOMAIN users[username]
             THEN Stored(users[username].user_data[data_type], file)
             ELSE Stored(None,
                         Put(users, username, with_user_data(users[username])))
        ELSE Stored(None, file)

\* a row of a stored or uploaded benefit table: the benefit column may be
\* absent, and when present holds whatever the table's author wrote
CropRow(name, yield, cost, price) ==
    [crop_name |-> name, yield_per_mu |-> yield, cost_per_mu |-> cost,
     unit_price |-> price]

Carrying(row, benefit) == row @@ [benefit_per_mu |-> benefit]

\* the first rows of get_sample_benefit_data and get_sample_planting_data
get_sample_benefit_data ==
    <<CropRow(XiaoMai, 600, 500, R(3, 2)), CropRow(YuMi, 800, 600, R(6, 5)),
      CropRow(HuangDou, 400, 400, R(3, 1))>>

get_sample_planting_data ==
    <<PlantingRow(XiaoMai, 80), PlantingRow(YuMi, 55), PlantingRow(YuMi, 35),
      PlantingRow(HuangDou, 72)>>

RequiredColumns == {"crop_name", "yield_per_mu", "cost_per_mu", "unit_price"}

\* uploads: a table without the benefit column, a table whose benefit column
\* is out of date, a table whose benefit column is right, and a table
\* without the cost column
UploadedTables ==
    {<<CropRow(XiaoMai, 600, 500, R(3, 2)), CropRow(LvDou, 300, 0, R(2, 1))>>,
     <<Carrying(CropRow(XiaoMai, 600, 500, R(3, 2)), RInt(999)),
       Carrying(CropRow(HuangDou, 400, 400, R(3, 1)), RInt(0))>>,
     <<Soy>>,
     <<MalformedRow>>}

\* the mutation of the derivation that keeps a benefit column the row carries
derive_benefit_if_absent(row) ==
    row @@ [benefit_per_mu |->
              RSub(RMul(RInt(row.yield_per_mu), row.unit_price),
                   RInt(row.cost_per_mu))]

\* benefit per mu = yield per mu x unit price - cost per mu, written over
\* whatever the row carried
derive_benefit(row) ==
    [benefit_per_mu |->
        RSub(RMul(RInt(row.yield_per_mu), row.unit_price),
             RInt(row.cost_per_mu))] @@ row

load_user_or_sample_data(file, username) ==
    LET planting == get_user_data(file, username, "planting_data")
        benefit == get_user_data(planting.file, username, "benefit_data")
        planting_table == IF IsNone(planting.value)
                          THEN get_sample_planting_data
                          ELSE planting.value.some
        benefit_table == IF IsNone(benefit.value)
                         THEN get_sample_benefit_data
                         ELSE benefit.value.some
    IN  Stored([planting_data |-> planting_table,
                benefit_data |-> [i \in DOMAIN benefit_table |->
                                    derive_benefit(benefit_table[i])]],
               benefit.file)

Usernames == {"lsf", "zhang"}
Passwords == {"123456", "abc"}
UserTypes == {"user", "farmer"}

\* a run of main that renders the page and handles no button: init_users
InitUsers ==
    /\ users_file' = init_users(users_file)
    /\ store_call' = [op |-> "init_users"]
    /\ UNCHANGED session_state
    /\ UNCHANGED <<optimizer_vars, predictor_vars, chat_vars>>

\* the account form of the login page: init_users, then register_user, and
\* the new user is logged in
RegisterUser ==
    \E username \in Usernames, password \in Passwords, user_type \in UserTypes :
        LET before == init_users(users_file)
            done == register_user(before, username, password, user_type)
        IN  /\ ~session_state.logged_in
            /\ users_file' = done.file
            /\ session_state' =
                  IF done.value[1] THEN LoggedIn(username) ELSE LoggedOut
            /\ store_call' = [op |-> "register_user", username |-> username,
                              password |-> password, user_type |-> user_type,
                              before |-> before, value |-> done.value]
            /\ UNCHANGED <<optimizer_vars, predictor_vars, chat_vars>>

\* the login form: init_users, then verify_user
Login ==
    \E username \in Usernames, password \in Passwords :
        LET done == verify_user(init_users(users_file), username, password)
        IN  /\ ~session_state.logged_in
            /\ users_file' = done.file
            /\ session_state' =
                  IF done.value[1] THEN LoggedIn(username) ELSE LoggedOut
            /\ store_call' = [op |-> "verify_user", username |-> username,
                              value |-> done.value[1]]
            /\ UNCHANGED <<optimizer_vars, predictor_vars, chat_vars>>

Logout ==
    /\ session_state.logged_in
    /\ users_file' = init_users(users_file)
    /\ session_state' = LoggedOut
    /\ store_call' = [op |-> "logout"]
    /\ pc' = "started"
    /\ UNCHANGED <<planting_data, benefit_data, preferences, risk_levels,
                   calls, arg_total_area, result, risk_result,
                   suitability_scores>>
    /\ UNCHANGED <<predictor_vars, chat_vars>>

\* the upload of a benefit table: when it has the required columns it is
\* stored as it is, with whatever benefit column it carries
UploadBenefit ==
    \E df_benefit \in UploadedTables :
        LET before == init_users(users_file)
            accepted == \A i \in DOMAIN df_benefit :
                            RequiredColumns \subseteq DOMAIN df_benefit[i]
        IN  /\ session_state.logged_in
            /\ users_file' =
                  IF accepted
                  THEN save_user_data(before, session_state.username,
                                      "benefit_data", Some(df_benefit)).file
                  ELSE before
            /\ store_call' = [op |-> "upload", accepted |-> accepted,
                              df_benefit |-> df_benefit]
            /\ UNCHANGED session_state
            /\ UNCHANGED <<optimizer_vars, predictor_vars, chat_vars>>

\* a run of main for a logged-in user: the tables are loaded and handed to
\* the pages, which construct the optimizer on them
LoadUserOrSampleData ==
    LET done == IF session_state.logged_in
                THEN load_user_or_sample_data(init_users(users_file),
                                              session_state.username)
                ELSE Stored(None, users_file)
    IN  /\ session_state.logged_in
        /\ users_file' = done.file
        /\ planting_data' = done.value.planting_data
        /\ benefit_data' = done.value.benefit_data
        /\ pc' = "constructed"
        /\ store_call' = [op |-> "load",
                          stored |-> get_user_data(init_users(users_file),
                                       session_state.username,
                                       "benefit_data").value]
        /\ UNCHANGED session_state
        /\ UNCHANGED <<preferences, risk_levels, calls, arg_total_area,
                       result, risk_result, suitability_scores>>
        /\ UNCHANGED <<predictor_vars, chat_vars>>

StoreInit ==
    /\ PricePredictorInit
    /\ PlatformInit
    /\ planting_data = <<>>
    /\ benefit_data = <<>>
    /\ preferences = DefaultPreferences
    /\ risk_levels = RiskLevels
    /\ pc = "started"
    /\ calls = 0
    /\ arg_total_area = 0
    /\ result = NoResult
    /\ risk_result = NoResult
    /\ suitability_scores = NoResult

StoreNext ==
    \/ InitUsers
    \/ RegisterUser
    \/ Login
    \/ Logout
    \/ UploadBenefit
    \/ LoadUserOrSampleData

StoreSpec == StoreInit /\ [][StoreNext]_vars

-----------------------------------------------------------------------------
(* The chat history: chat_history.json, a dict from a chat id to the list   *)
(* of the chat's messages, rewritten whole by every call that changes it    *)

\* the length a stored history may not exceed, and the number of messages
\* kept when it does
HistoryLimit == 1000
KeepNewest == 500

\* the number of chat calls followed
MaxSaves == 3

\* no chat call made yet
NoChatCall == [op |-> "none", n |-> 0]

\* init_chat_db, then json.load: the dict the file holds, the empty dict when
\* the file had to be created
load_chats(file) == IF "exists" \in DOMAIN file THEN EmptyDict ELSE file

\* the dict built for a message; a text is stood for by a number
Message(sender, content, now) ==
    [sender |-> sender, time |-> now, content |-> content,
     type |-> "text", read |-> FALSE]

\* s[-n:]
Newest(s, n) == IF Len(s) <= n THEN s ELSE SubSeq(s, Len(s) - n + 1, Len(s))

\* all_chats.get(chat_id, [])
load_chat_history(file, chat_id) ==
    IF chat_id \in DOMAIN load_chats(file)
    THEN load_chats(file)[chat_id]
    ELSE <<>>

\* the mutation of save_message that never cuts a history
save_message_uncut(file, chat_id, sender, content, now) ==
    Put(load_chats(file), chat_id,
        Append(load_chat_history(file, chat_id),
               Message(sender, content, now)))

\* the file save_message leaves
save_message(file, chat_id, sender, content, now) ==
    LET appended == Append(load_chat_history(file, chat_id),
                           Message(sender, content, now))
    IN  Put(load_chats(file), chat_id,
            IF Len(appended) > HistoryLimit
            THEN Newest(appended, KeepNewest)
            ELSE appended)

\* the file mark_messages_as_read leaves: the file is rewritten only when it
\* holds the chat, and is created empty when it was absent
mark_messages_as_read(file, chat_id, reader) ==
    LET all_chats == load_chats(file)
    IN  IF chat_id \in DOMAIN all_chats
        THEN Put(all_chats, chat_id,
                 [i \in DOMAIN all_chats[chat_id] |->
                     IF all_chats[chat_id][i].sender # reader
                     THEN [all_chats[chat_id][i] EXCEPT !.read = TRUE]
                     ELSE all_chats[chat_id][i]])
        ELSE all_chats

\* the public channel and one private chat
ChatIds == {"PUBLIC_CHANNEL", "lsf|zhang"}

\* texts sent in the calls followed
NewTexts == {2001, 2002}

\* datetime.now() formatted: one reading of the clock
Clock == {"2026-11-06 09:00:00"}

\* a history of n messages saved earlier, the i-th with text i
History(n) == [i \in 1..n |-> Message("lsf", i, "2026-11-05 18:00:00")]

\* files the platform's earlier runs can have left: none, one whose public
\* channel is one message short of the limit, and one whose private chat is
\* at the limit
ChatFiles ==
    {NoFile,
     [c \in ChatIds |-> IF c = "PUBLIC_CHANNEL"
                        THEN History(HistoryLimit - 1)
                        ELSE History(2)],
     [c \in {"lsf|zhang"} |-> History(HistoryLimit)]}

\* the send buttons of the public channel and of a private chat
SaveMessage ==
    /\ chat_call.n < MaxSaves
    /\ \E chat_id \in ChatIds, sender \in Usernames,
          content \in NewTexts, now \in Clock :
            /\ chat_db' = save_message(chat_db, chat_id, sender, content, now)
            /\ chat_call' = [op |-> "save_message", n |-> chat_call.n + 1,
                             chat_id |-> chat_id,
                             message |-> Message(sender, content, now),
                             before |-> chat_db]
    /\ UNCHANGED <<optimizer_vars, predictor_vars, store_vars>>

\* opening or refreshing a chat
MarkMessagesAsRead ==
    /\ chat_call.n < MaxSaves
    /\ \E chat_id \in ChatIds, reader \in Usernames :
            /\ chat_db' = mark_messages_as_read(chat_db, chat_id, reader)
            /\ chat_call' = [op |-> "mark_messages_as_read",
                             n |-> chat_call.n + 1,
                             chat_id |-> chat_id, reader |-> reader,
                             before |-> chat_db]
    /\ UNCHANGED <<optimizer_vars, predictor_vars, store_vars>>

ChatInit ==
    /\ PricePredictorInit
    /\ planting_data = <<>>
    /\ benefit_data = <<>>
    /\ preferences = DefaultPreferences
    /\ risk_levels = RiskLevels
    /\ pc = "started"
    /\ calls = 0
    /\ arg_total_area = 0
    /\ result = NoResult
    /\ risk_result = NoResult
    /\ suitability_scores = NoResult
    /\ users_file = NoFile
    /\ session_state = LoggedOut
    /\ store_call = NoCall
    /\ chat_db \in ChatFiles
    /\ chat_call = NoChatCall

ChatNext == SaveMessage \/ MarkMessagesAsRead

ChatSpec == ChatInit /\ [][ChatNext]_vars

-----------------------------------------------------------------------------
(* What the properties below speak of, read off the inputs and the result   *)

Returned == pc = "returned"
Optimal == Returned /\ result.status = "optimal"

TableCrops == {benefit_data[i].crop_name : i \in DOMAIN benefit_data}

\* the area of a crop in the returned plan, in twentieths of a mu
Allocated(c) ==
    IF c \in DOMAIN result.crop_allocations
    THEN result.crop_allocations[c].area ELSE 0

RECURSIVE AllocatedSum(_)
AllocatedSum(S) ==
    IF S = {} THEN 0
    ELSE LET c == CHOOSE c \in S : TRUE IN Allocated(c) + AllocatedSum(S \ {c})

Listed(c) == \E i \in DOMAIN planting_data : planting_data[i].crop_name = c

\* the planted area of a crop over all plots, in mu
Planted(c) ==
    SeqSum([i \in DOMAIN planting_data |->
               IF planting_data[i].crop_name = c THEN planting_data[i].area ELSE 0])

Legumes == {c \in TableCrops : \E i \in DOMAIN c : c[i] = "dou"}

(* C1: an optimal plan allocates at most total_area: the areas listed in    *)
(* crop_allocations, and the reported allocated_area, sum to at most        *)
(* total_area.                                                              *)
C1_AreaBudget ==
    Optimal =>
        /\ result.total_area = arg_total_area
        /\ AllocatedSum(DOMAIN result.crop_allocations) <= 20 * arg_total_area
        /\ result.allocated_area <= 20 * arg_total_area

\* four crops are planted and together they use the whole area
C1_Witness ==
    /\ Optimal
    /\ arg_total_area > 0
    /\ Cardinality(DOMAIN result.crop_allocations) = 4
    /\ result.allocated_area = 20 * arg_total_area

(* C2: in an optimal plan no crop gets more than 30% of total_area,         *)
(* whatever its current planted area.                                       *)
C2_DiversityCap ==
    Optimal =>
        \A c \in DOMAIN result.crop_allocations :
            100 * Allocated(c) <= 30 * 20 * arg_total_area

\* a crop whose continuity ceiling lies above the cap is held at the cap
C2_Witness ==
    /\ Optimal
    /\ \E c \in DOMAIN result.crop_allocations :
          /\ 2 * Allocated(c) < 3 * 20 * Planted(c)
          /\ 100 * Allocated(c) = 30 * 20 * arg_total_area

(* C3: in an optimal plan over a benefit table with at least one legume,    *)
(* the legumes together get at least 15% of total_area.                     *)
C3_RotationMinimum ==
    Optimal /\ Legumes # {} =>
        100 * AllocatedSum(Legumes) >= 15 * 20 * arg_total_area

\* two legumes share the rotation area of a positive total area
C3_Witness ==
    /\ Optimal
    /\ arg_total_area > 0
    /\ Cardinality(Legumes \cap DOMAIN result.crop_allocations) = 2

(* C4: in an optimal plan every crop of the benefit table that is currently *)
(* planted on a nonzero area a (summed over its plots) gets between 0.5a    *)
(* and 1.5a, so it stays in the plan.                                       *)
C4_Continuity ==
    Optimal =>
        \A c \in TableCrops :
            Planted(c) > 0 =>
                /\ c \in DOMAIN result.crop_allocations
                /\ 2 * Allocated(c) >= 20 * Planted(c)
                /\ 2 * Allocated(c) <= 3 * 20 * Planted(c)

\* a crop planted on two plots is kept, at one and a half times the sum of
\* the two plots
C4_Witness ==
    /\ Optimal
    /\ \E c \in TableCrops :
          /\ Cardinality({i \in DOMAIN planting_data :
                             planting_data[i].crop_name = c}) = 2
          /\ Planted(c) > 0
          /\ 2 * Allocated(c) = 3 * 20 * Planted(c)

-----------------------------------------------------------------------------
(* The problem of the returned call, and the constraints as the properties  *)
(* C5, C6 and C10 state them: the continuity bounds apply to the crops      *)
(* whose current planted area is not zero, and to no other crop.            *)

NoFault == Returned /\ result.status # "error"

ReturnedProblem ==
    LpProblem(benefit_data, planting_data, preferences, risk_levels,
              arg_total_area)

StatedConstraints(X, prob) ==
    /\ SumOver(X, prob.names) <= 20 * prob.total_area
    /\ prob.beans # <<>> =>
          SumOver(X, prob.beans) >= Pct(MinBeanPercent, prob.total_area)
    /\ \A i \in DOMAIN prob.names :
          X[prob.names[i]] <= Pct(MaxCropPercent, prob.total_area)
    /\ \A c \in DOMAIN prob.current \cap DOMAIN X :
          prob.current[c] # 0 =>
              /\ X[c] >= Pct(MinChangePercent, prob.current[c])
              /\ X[c] <= Pct(MaxChangePercent, prob.current[c])

\* the returned plan as an assignment of areas to the crops of the table
ReturnedPlan == [c \in TableCrops |-> Allocated(c)]

(* C5: the continuity rule does not constrain a crop whose current planted  *)
(* area is zero, be it absent from the planting table or listed there with  *)
(* total area 0: every assignment of areas that meets the area budget, the  *)
(* rotation minimum, the diversity cap and the continuity bounds of the     *)
(* crops of nonzero current area is one the program's problem admits.       *)
C5_ZeroAreaUnconstrained ==
    NoFault =>
        \A prob \in {ReturnedProblem} :
            \A X \in Assignments(prob) :
                StatedConstraints(X, prob) => Constraints(X, prob)

(* C6: a call that does not fault returns 'optimal' exactly when some       *)
(* assignment of non-negative areas meets the area budget, the rotation     *)
(* minimum, the diversity cap and the continuity bounds together, and       *)
(* 'infeasible', with no crop allocation in the result, when none does.     *)
C6_OptimalIffFeasible ==
    NoFault =>
        IF \E prob \in {ReturnedProblem} :
              \E X \in Assignments(prob) : StatedConstraints(X, prob)
        THEN result.status = "optimal"
        ELSE /\ result.status = "infeasible"
             /\ "crop_allocations" \notin DOMAIN result
             /\ "allocated_area" \notin DOMAIN result

(* C7: the call never raises to its caller: whatever the tables and the     *)
(* preferences (weights that do not sum to 1, an unknown risk tier, a       *)
(* missing key, an empty or malformed table), it returns a result whose     *)
(* status is 'optimal', 'infeasible' or 'error'; an 'error' result carries  *)
(* a message, and a table or preferences that make the construction of the  *)
(* problem fail give 'error'.                                               *)
C7_NeverRaises ==
    Returned =>
        /\ result.status \in {"optimal", "infeasible", "error"}
        /\ result.status = "error" => "message" \in DOMAIN result
        /\ (\/ \E i \in DOMAIN benefit_data :
                  "cost_per_mu" \notin DOMAIN benefit_data[i]
            \/ "risk_level" \notin DOMAIN preferences
            \/ /\ benefit_data # <<>>
               /\ \E i \in DOMAIN WeightKeys :
                     WeightKeys[i] \notin DOMAIN preferences)
              => result.status = "error"

\* preferences without a risk tier: the lookup fails and the call reports it
C7_Witness ==
    /\ Returned
    /\ "risk_level" \notin DOMAIN preferences
    /\ benefit_data # <<>>
    /\ result.status = "error"
    /\ result.message = "KeyError: risk_level"

\* the inputs of the end-to-end example
EndToEndExample ==
    /\ Returned
    /\ benefit_data = <<Wheat, Soy>>
    /\ planting_data = <<PlantingRow(XiaoMai, 80)>>
    /\ arg_total_area = 100
    /\ preferences = Tier("balanced") @@ Weights(6, 3, 1)

(* C8 as stated: the end-to-end example (wheat 600/500/1.5, soy             *)
(* 400/400/3.0, 80 of wheat planted, total area 100, weights 0.6/0.3/0.1,   *)
(* balanced tier) returns 'optimal' with soy at most 30 and at least 15 and *)
(* wheat between 40 and 120.                                                *)
C8_ExampleOptimal ==
    EndToEndExample =>
        /\ result.status = "optimal"
        /\ Allocated(HuangDou) <= 20 * 30
        /\ Allocated(HuangDou) >= 20 * 15
        /\ Allocated(XiaoMai) >= 20 * 40
        /\ Allocated(XiaoMai) <= 20 * 120

(* C8 amended: the end-to-end example returns 'infeasible' with no          *)
(* allocation: the continuity floor of wheat, 40, lies above its diversity  *)
(* cap, 30.                                                                 *)
C8_ExampleInfeasible ==
    EndToEndExample =>
        /\ result.status = "infeasible"
        /\ "crop_allocations" \notin DOMAIN result
        /\ Pct(MinChangePercent, Planted(XiaoMai)) >
              Pct(MaxCropPercent, arg_total_area)

C8_Witness == EndToEndExample /\ result.status = "infeasible"

(* C9 as stated: with total_area = 0 a call that does not fault returns     *)
(* 'optimal' with empty crop_allocations and allocated_area 0, whatever the *)
(* planting table.                                                          *)
C9_ZeroAreaOptimal ==
    NoFault /\ arg_total_area = 0 =>
        /\ result.status = "optimal"
        /\ DOMAIN result.crop_allocations = {}
        /\ result.allocated_area = 0

(* C9 amended: with total_area = 0 a call that does not fault returns       *)
(* 'optimal' with empty crop_allocations and allocated_area 0 when no crop  *)
(* of the benefit table has a nonzero current planted area, and             *)
(* 'infeasible' when one has.                                               *)
C9_ZeroArea ==
    NoFault /\ arg_total_area = 0 =>
        IF \E c \in TableCrops : Planted(c) > 0
        THEN result.status = "infeasible"
        ELSE /\ result.status = "optimal"
             /\ DOMAIN result.crop_allocations = {}
             /\ result.allocated_area = 0

\* total area 0 and a crop of the table planted on 80 mu
C9_Witness ==
    /\ NoFault
    /\ arg_total_area = 0
    /\ \E c \in TableCrops : Planted(c) = 80
    /\ result.status = "infeasible"

(* C10: an optimal plan maximizes the objective: no assignment that meets   *)
(* the area budget, the rotation minimum, the diversity cap and the         *)
(* continuity bounds of the crops of nonzero current area has a larger      *)
(* weighted value than the returned one.                                    *)
C10_Maximal ==
    Optimal =>
        \A prob \in {ReturnedProblem} :
            \A best \in {Objective(ReturnedPlan, prob)} :
                \A Z \in Assignments(prob) :
                    StatedConstraints(Z, prob) => Objective(Z, prob) <= best

(* C11: the risk tier does not change the outcome: for the tables, weights  *)
(* and total area of the call, each of the five tiers and an unknown tier   *)
(* give the same status and the same set of optimal plans.                  *)
C11_TierInvariant ==
    NoFault =>
        \A plans \in {optimize_planting_plan(benefit_data, planting_data,
                                            preferences, risk_levels,
                                            arg_total_area)} :
            \A tier \in DOMAIN risk_levels \cup {"unknown"} :
                optimize_planting_plan(
                    benefit_data, planting_data,
                    [preferences EXCEPT !.risk_level = tier],
                    risk_levels, arg_total_area) = plans

\* a plan of two crops or more computed under a tier the table does not
\* know, with the default factor
C11_Witness ==
    /\ Optimal
    /\ preferences.risk_level \notin DOMAIN risk_levels
    /\ Cardinality(DOMAIN result.crop_allocations) >= 2

\* benefit per mu times the new area, over the crops of the benefit table
NewTotalBenefit ==
    RSumOver([c \in TableCrops |->
                 RMul(crop_data(benefit_data, c).benefit_per_mu,
                      R(Allocated(c), 20))], TableCrops)

\* benefit per mu times the currently planted area, over the currently
\* planted crops of the benefit table
CurrentTotalBenefit ==
    RSumOver([c \in TableCrops |->
                 RMul(crop_data(benefit_data, c).benefit_per_mu,
                      RInt(Planted(c)))], TableCrops)

(* C12: in an optimal result expected_improvement is                        *)
(* (new total benefit - current total benefit) / current total benefit x    *)
(* 100, the current total taken over all currently planted crops of the     *)
(* benefit table, and it is 0 exactly when the current total benefit is 0;  *)
(* the formula applies to a negative baseline too.                          *)
C12_ExpectedImprovement ==
    Optimal =>
        \A cur \in {CurrentTotalBenefit} :
            IF cur = RInt(0)
            THEN result.expected_improvement = RInt(0)
            ELSE result.expected_improvement =
                    RMul(RDiv(RSub(NewTotalBenefit, cur), cur), RInt(100))

(* C13: in an optimal result crop_allocations lists exactly the crops of    *)
(* the benefit table whose solved area is strictly positive: every key is a *)
(* crop of the table, every listed area is above 0 and is the solved area,  *)
(* and a crop solved to 0 is left out.                                      *)
C13_PositiveAllocations ==
    Optimal =>
        /\ DOMAIN result.crop_allocations \subseteq TableCrops
        /\ \A c \in DOMAIN result.crop_allocations :
              result.crop_allocations[c].area > 0
        /\ \E X \in Solve(ReturnedProblem) :
              \A c \in TableCrops :
                  IF X[c] > 0
                  THEN /\ c \in DOMAIN result.crop_allocations
                       /\ result.crop_allocations[c].area = X[c]
                  ELSE c \notin DOMAIN result.crop_allocations

\* a plan that lists some crops of the table and leaves another out
C13_Witness ==
    /\ Optimal
    /\ DOMAIN result.crop_allocations # {}
    /\ TableCrops \ DOMAIN result.crop_allocations # {}

(* C14: when no crop of the benefit table is a legume the problem has no    *)
(* rotation row: an assignment is admitted as soon as it meets the area     *)
(* budget, the diversity cap and the continuity bounds, whatever its total  *)
(* (the all-zero one included), and with total_area > 0 the call returns    *)
(* 'optimal' whenever such an assignment exists.                            *)
C14_NoLegumeNoRotation ==
    NoFault /\ Legumes = {} =>
        \A prob \in {ReturnedProblem} :
            /\ \A X \in Assignments(prob) :
                  ConstraintsNoRotation(X, prob) => Constraints(X, prob)
            /\ (/\ arg_total_area > 0
                /\ \E X \in Assignments(prob) : ConstraintsNoRotation(X, prob))
                  => result.status = "optimal"

\* a table without legumes, a positive total area, and an optimal plan whose
\* total is below 15% of it
C14_Witness ==
    /\ Optimal
    /\ benefit_data # <<>>
    /\ Legumes = {}
    /\ arg_total_area > 0
    /\ 100 * result.allocated_area < 15 * 20 * arg_total_area

-----------------------------------------------------------------------------
(* The risk report of an optimal result                                     *)

Analysed == pc = "analysed"

\* cost per mu times the allocated area, over the allocated crops
TotalInvestment ==
    RSumOver([c \in DOMAIN result.crop_allocations |->
                 RMul(RInt(crop_data(benefit_data, c).cost_per_mu),
                      R(Allocated(c), 20))],
             DOMAIN result.crop_allocations)

\* benefit per mu times the allocated area, over the allocated crops
TotalExpectedReturn ==
    RSumOver([c \in DOMAIN result.crop_allocations |->
                 RMul(crop_data(benefit_data, c).benefit_per_mu,
                      R(Allocated(c), 20))],
             DOMAIN result.crop_allocations)

(* C15: the report's roi is total_expected_return / total_investment x 100  *)
(* when total_investment is not 0, and 0 when it is 0, the empty allocation *)
(* included; no division by zero happens.                                   *)
C15_Roi ==
    Analysed =>
        /\ risk_result.total_investment = TotalInvestment
        /\ risk_result.total_expected_return = TotalExpectedReturn
        /\ IF TotalInvestment # RInt(0)
           THEN risk_result.roi =
                   RMul(RDiv(TotalExpectedReturn, TotalInvestment), RInt(100))
           ELSE risk_result.roi = RInt(0)

\* crops are allocated and nothing is invested: the allocated crops cost
\* nothing
C15_Witness ==
    /\ Analysed
    /\ DOMAIN result.crop_allocations # {}
    /\ risk_result.total_investment = RInt(0)
    /\ risk_result.roi = RInt(0)

\* (cost/1000 + (1 - yield / largest yield of the table)) / 2
StatedRiskScore(c) ==
    RDiv(RAdd(R(crop_data(benefit_data, c).cost_per_mu, 1000),
              RSub(RInt(1),
                   R(crop_data(benefit_data, c).yield_per_mu,
                     SetMax({benefit_data[i].yield_per_mu :
                                i \in DOMAIN benefit_data})))),
         RInt(2))

(* C16: overall_risk is the unweighted mean of the risk scores of the       *)
(* allocated crops, each score being (cost/1000 + (1 - yield / largest      *)
(* yield of the table)) / 2; the same crops with other areas give the same  *)
(* overall_risk.                                                            *)
C16_OverallRisk ==
    Analysed /\ DOMAIN result.crop_allocations # {} =>
        /\ DOMAIN risk_result.crop_risks = DOMAIN result.crop_allocations
        /\ \A c \in DOMAIN result.crop_allocations :
              risk_result.crop_risks[c].risk_score = StatedRiskScore(c)
        /\ risk_result.overall_risk =
              RDiv(RSumOver([c \in DOMAIN result.crop_allocations |->
                                StatedRiskScore(c)],
                            DOMAIN result.crop_allocations),
                   RInt(Cardinality(DOMAIN result.crop_allocations)))
        /\ risk_analysis(benefit_data,
                         [c \in DOMAIN result.crop_allocations |->
                             [area |-> 20]]).overall_risk
              = risk_result.overall_risk

\* two allocated crops of different areas, investments and risk scores
C16_Witness ==
    /\ Analysed
    /\ \E c, d \in DOMAIN result.crop_allocations :
          /\ Allocated(c) # Allocated(d)
          /\ risk_result.crop_risks[c].risk_score #
                risk_result.crop_risks[d].risk_score
          /\ risk_result.crop_risks[c].investment #
                risk_result.crop_risks[d].investment
          /\ risk_result.crop_risks[d].investment # RInt(0)

(* C17: every risk score of a report is a number and is not negative: the   *)
(* score of each crop and overall_risk, for every allocation of an optimal  *)
(* result, the empty one included.                                          *)
C17_ScoresDefined ==
    Analysed =>
        /\ risk_result.overall_risk # NaN
        /\ ~RLess(risk_result.overall_risk, RInt(0))
        /\ \A c \in DOMAIN risk_result.crop_risks :
              /\ risk_result.crop_risks[c].risk_score # NaN
              /\ ~RLess(risk_result.crop_risks[c].risk_score, RInt(0))

-----------------------------------------------------------------------------
(* The price predictor                                                      *)

Predicted == predictor_call.op = "predict"

(* C18: predict on an instance on which no train call has succeeded returns *)
(* None and does not raise, also after failed train calls and after earlier *)
(* predict calls.                                                           *)
C18_NotTrained ==
    Predicted /\ ~ever_trained =>
        /\ ~predictor_call.outcome.raised
        /\ predictor_call.outcome.value = None

\* a predict call that follows a failed train call
C18_Witness ==
    /\ Predicted
    /\ predictor_call.after = "train"
    /\ ~ever_trained
    /\ predictor_call.outcome = Return(None)

(* C19: after a successful train, predict(crop, months) returns exactly     *)
(* months entries, in increasing date order, and every predicted price is   *)
(* at least 0.1, whatever the fitted model outputs.                         *)
C19_Predictions ==
    Predicted /\ ever_trained =>
        /\ ~predictor_call.outcome.raised
        /\ \A rows \in {predictor_call.outcome.value.rows} :
              /\ Len(rows) = predictor_call.months
              /\ \A i \in DOMAIN rows : 10 * rows[i].predicted_price.n
                                           >= rows[i].predicted_price.d
              /\ \A i, j \in DOMAIN rows :
                    i < j => 12 * rows[i].date.year + rows[i].date.month
                                < 12 * rows[j].date.year + rows[j].date.month

\* three months that run into the next year, with a raw price below 0.1
\* raised to 0.1 and a raw price above it kept
C19_Witness ==
    /\ Predicted
    /\ ever_trained
    /\ ~predictor_call.outcome.raised
    /\ \E rows \in {predictor_call.outcome.value.rows} :
          /\ Len(rows) = 3
          /\ rows[1].date.year < rows[3].date.year
          /\ \E i \in DOMAIN rows :
                /\ RLess(model.predict[rows[i].date], PriceFloor)
                /\ rows[i].predicted_price = PriceFloor
          /\ \E i \in DOMAIN rows : RLess(PriceFloor, rows[i].predicted_price)

-----------------------------------------------------------------------------
(* Purity of the optimizer's methods                                        *)

\* what a new instance with the same tables and preferences returns for the
\* same total area
FreshResults ==
    {except_handler(o) :
        o \in optimize_body(benefit_data, planting_data, preferences,
                            risk_levels, arg_total_area)}

-----------------------------------------------------------------------------
(* The tables a run of main hands to the pages *)

Handed == pc = "constructed" /\ store_call.op = "load"

\* the table the load started from: the user's stored table, or the sample
LoadedFrom ==
    IF IsNone(store_call.stored) THEN get_sample_benefit_data
    ELSE store_call.stored.some

Derived(row) ==
    RSub(RMul(RInt(row.yield_per_mu), row.unit_price), RInt(row.cost_per_mu))

(* C21: every row of the benefit table handed to the scorer, the allocator  *)
(* and the risk analysis has benefit per mu = yield per mu x unit price -   *)
(* cost per mu, computed from the yield, price and cost of the table the    *)
(* load started from (the user's stored table or the sample), whatever      *)
(* benefit column that table carried.                                       *)
C21_BenefitDerived ==
    Handed =>
        /\ DOMAIN benefit_data = DOMAIN LoadedFrom
        /\ \A i \in DOMAIN benefit_data :
              /\ benefit_data[i].benefit_per_mu = Derived(benefit_data[i])
              /\ \A column \in RequiredColumns :
                    benefit_data[i][column] = LoadedFrom[i][column]

\* a stored table whose benefit column is out of date has been loaded
C21_Witness ==
    /\ Handed
    /\ ~IsNone(store_call.stored)
    /\ \E i \in DOMAIN LoadedFrom :
          /\ "benefit_per_mu" \in DOMAIN LoadedFrom[i]
          /\ LoadedFrom[i].benefit_per_mu # Derived(LoadedFrom[i])

-----------------------------------------------------------------------------
(* The scores calculate_crop_suitability returned *)

Scored == pc = "scored" /\ ~suitability_scores.raised

Scores == suitability_scores.value

Largest(S) == CHOOSE x \in S : \A y \in S : y <= x

\* the score as the specification states it, for a row of the table and a
\* rotation bonus in tenths
StatedScore(t, row, bonus) ==
    LET max_benefit == CHOOSE b \in Column(t, "benefit_per_mu") :
                          \A other \in Column(t, "benefit_per_mu") :
                              ~RLess(b, other)
        cost_share == R(row.cost_per_mu, Largest(Column(t, "cost_per_mu")))
        yield_share == R(row.yield_per_mu, Largest(Column(t, "yield_per_mu")))
        economic == RDiv(row.benefit_per_mu, max_benefit)
        stability ==
            RDiv(RAdd(RSub(RInt(1), cost_share), yield_share), RInt(2))
        sustainability ==
            RDiv(RAdd(R(bonus, 10), RSub(RInt(1), cost_share)), RInt(2))
    IN  RAdd(RAdd(RMul(R(4, 10), economic), RMul(R(3, 10), stability)),
             RMul(R(3, 10), sustainability))

(* C22: calculate_crop_suitability returns one score per crop of the        *)
(* benefit table, and the score of a crop is 0.4 x (benefit / max benefit)  *)
(* + 0.3 x ((1 - cost / max cost) + yield / max yield) / 2                  *)
(* + 0.3 x (bonus + (1 - cost / max cost)) / 2, with bonus 0.3 for a        *)
(* legume and 0.1 for any other crop and the maxima those of the table;     *)
(* the value is not clamped to [0, 1].                                      *)
C22_ScoreFormula ==
    Scored =>
        /\ DOMAIN Scores = TableCrops
        /\ \A i \in DOMAIN benefit_data :
              Scores[benefit_data[i].crop_name] =
                  StatedScore(benefit_data, benefit_data[i],
                      IF benefit_data[i].crop_name \in Legumes THEN 3 ELSE 1)

\* a table of a legume and another crop was scored, and a score is below 0
C22_Witness ==
    /\ Scored
    /\ Legumes # {}
    /\ \E c \in DOMAIN Scores : c \notin Legumes /\ RLess(Scores[c], RInt(0))


\* a table on which the scorer divides by 0: every cost is 0, or every
\* yield is 0, or the largest benefit is 0
ZeroMaximum(t) ==
    /\ t # <<>>
    /\ \A i \in DOMAIN t : ScorerColumns \subseteq DOMAIN t[i]
    /\ \/ \A i \in DOMAIN t : t[i].cost_per_mu = 0
       \/ \A i \in DOMAIN t : t[i].yield_per_mu = 0
       \/ /\ \E i \in DOMAIN t : t[i].benefit_per_mu = RInt(0)
          /\ \A i \in DOMAIN t : ~RLess(RInt(0), t[i].benefit_per_mu)

(* C23: on a benefit table with a normalising maximum of 0 (every cost 0,   *)
(* every yield 0, or largest benefit 0) calculate_crop_suitability returns  *)
(* no score that is infinite or not a number, and optimize_planting_plan    *)
(* returns status 'error'.                                                  *)
C23_ZeroMaximumDefined ==
    /\ Scored /\ ZeroMaximum(benefit_data) =>
          \A c \in DOMAIN Scores : IsFinite(Scores[c])
    /\ Returned /\ ZeroMaximum(benefit_data) => result.status = "error"


-----------------------------------------------------------------------------
(* The crop category of the planting table *)

LegumeTypes == {"grain (legume)", "oil (legume)"}

HasTag(c) == \E i \in DOMAIN planting_data : planting_data[i].crop_name = c

TaggedLegume(c) ==
    \E i \in DOMAIN planting_data :
        /\ planting_data[i].crop_name = c
        /\ planting_data[i].crop_type \in LegumeTypes

(* C24: a crop gets the rotation bonus 0.3 in the scorer, and is one of the *)
(* crops of the allocator's rotation minimum, exactly when its category is  *)
(* a legume category, whatever its name; stated for the crops of the        *)
(* benefit table that the planting table gives a category.                  *)
C24_TaggedLegumes ==
    /\ Scored =>
          \A i \in DOMAIN benefit_data :
              HasTag(benefit_data[i].crop_name) =>
                  Scores[benefit_data[i].crop_name] =
                      StatedScore(benefit_data, benefit_data[i],
                          IF TaggedLegume(benefit_data[i].crop_name)
                          THEN 3 ELSE 1)
    /\ Returned /\ NoFault =>
          \A c \in TableCrops :
              HasTag(c) =>
                  (c \in SeqSet(bean_crops(benefit_data)) <=> TaggedLegume(c))


-----------------------------------------------------------------------------
(* The entries of a returned plan *)

Entries == result.crop_allocations

RECURSIVE PercentageSum(_)
PercentageSum(S) ==
    IF S = {} THEN RInt(0)
    ELSE LET c == CHOOSE c \in S : TRUE
         IN  RAdd(Entries[c].percentage, PercentageSum(S \ {c}))

BenefitOf(c) ==
    benefit_data[CHOOSE i \in DOMAIN benefit_data :
                    benefit_data[i].crop_name = c].benefit_per_mu

(* C25: in an optimal result over a benefit table with unique crop names,   *)
(* allocated_area is the sum of the areas listed in crop_allocations, the   *)
(* expected_benefit of an entry is its crop's benefit per mu times its      *)
(* area, its percentage is its area / total_area x 100, and the percentages *)
(* sum to at most 100.                                                      *)
C25_ResultConsistent ==
    Optimal =>
        /\ result.allocated_area = AllocatedSum(DOMAIN Entries)
        /\ \A c \in DOMAIN Entries :
              /\ Entries[c].expected_benefit =
                    RMul(BenefitOf(c), R(Entries[c].area, 20))
              /\ Entries[c].percentage =
                    R(100 * Entries[c].area, 20 * arg_total_area)
        /\ ~RLess(RInt(100), PercentageSum(DOMAIN Entries))

\* a plan of two crops or more that leaves part of the total area unused
C25_Witness ==
    /\ Optimal
    /\ Cardinality(DOMAIN Entries) >= 2
    /\ result.allocated_area < 20 * arg_total_area


-----------------------------------------------------------------------------
(* Planting rows of crops that the benefit table does not have *)

Foreign(row) == row.crop_name \notin TableCrops

KnownRows == SelectSeq(planting_data, LAMBDA row : ~Foreign(row))

(* C26: the planting rows whose crop is not in the benefit table have no    *)
(* effect on the allocator: the result returned is the result for the       *)
(* planting table without those rows.                                       *)
C26_ForeignRowsIgnored ==
    Returned =>
        \A without \in {optimize_planting_plan(benefit_data, KnownRows,
                            preferences, risk_levels, arg_total_area)} :
            without = {result}

\* a plan was returned for a planting table with a planted row of a crop
\* that the benefit table does not have, next to a row of a crop it has
C26_Witness ==
    /\ Optimal
    /\ DOMAIN Entries # {}
    /\ \E i \in DOMAIN planting_data :
          Foreign(planting_data[i]) /\ planting_data[i].area > 0
    /\ \E i \in DOMAIN planting_data :
          ~Foreign(planting_data[i]) /\ planting_data[i].area > 0


-----------------------------------------------------------------------------
(* The crop argument of predict, and a train call that fails *)

Forecast == Predicted /\ is_trained

(* C27: on a trained predictor, predict(crop, months) returns for every     *)
(* crop name, one that the training table did not have included, what it    *)
(* returns for the crop it was called with, and a predict call leaves the   *)
(* model, the scaler and is_trained as they were.                           *)
C27_CropIgnored ==
    /\ [](Forecast =>
            \A crop \in PredictCrops :
                predict(is_trained, scaler, model, crop,
                        predictor_call.months, predictor_call.now)
                    = predictor_call.outcome)
    /\ [][predictor_call'.op = "predict" =>
            UNCHANGED <<model, scaler, is_trained>>]_vars

\* a forecast of some months for a crop that no training table has
C27_Witness ==
    /\ Forecast
    /\ predictor_call.crop = YuMi
    /\ predictor_call.months > 0
    /\ ~predictor_call.outcome.raised
    /\ Len(predictor_call.outcome.value.rows) = predictor_call.months

(* C28: a train call that returns False leaves is_trained, the scaler and   *)
(* the model as they were before the call, and a forecast is never made by  *)
(* a scaler and a model that different train calls have fitted.             *)
C28_FailedTrainKeepsState ==
    /\ [][predictor_call'.op = "train" /\ ~predictor_call'.value =>
            UNCHANGED <<is_trained, scaler, model>>]_vars
    /\ [](Forecast => same_fit)


\* a save_message call has just returned
SavedMessage == chat_call.op = "save_message"

\* the chat's history before the call just made, with the call's message
\* appended
Appended ==
    Append(load_chat_history(chat_call.before, chat_call.chat_id),
           chat_call.message)

\* C29: every chat's stored history holds at most 1000 messages; after a
\* save_message call the chat's history is the earlier history with the
\* message appended, in the same order and with the message last, or the
\* newest 500 messages of that when the append made the length exceed 1000;
\* every other chat is as it was before the call.
C29_HistoryCut ==
    /\ \A id \in DOMAIN load_chats(chat_db) :
            Len(chat_db[id]) <= 1000
    /\ SavedMessage =>
            /\ DOMAIN chat_db
                 = DOMAIN load_chats(chat_call.before) \cup {chat_call.chat_id}
            /\ chat_db[chat_call.chat_id][Len(chat_db[chat_call.chat_id])]
                 = chat_call.message
            /\ IF Len(Appended) > 1000
               THEN /\ Len(chat_db[chat_call.chat_id]) = 500
                    /\ \A i \in 1..500 :
                        chat_db[chat_call.chat_id][i]
                          = Appended[Len(Appended) - 500 + i]
               ELSE chat_db[chat_call.chat_id] = Appended
            /\ \A id \in DOMAIN chat_db \ {chat_call.chat_id} :
                    chat_db[id] = chat_call.before[id]

\* a message was saved to a history of 1000 messages, which was cut, while
\* the file held another chat with messages of its own
C29_Witness ==
    /\ SavedMessage
    /\ Len(Appended) = 1001
    /\ Len(chat_db[chat_call.chat_id]) = 500
    /\ \E id \in DOMAIN chat_db \ {chat_call.chat_id} : Len(chat_db[id]) > 0

-----------------------------------------------------------------------------
(* Registration *)

Registered == store_call.op = "register_user"

(* C30: register_user called with a username that the user store has, a     *)
(* predefined account included, returns False and leaves the store as it    *)
(* was; called with a new username it returns True and adds that user, with *)
(* the given password and type and the default preferences, and every other *)
(* account is as it was.                                                    *)
C30_RegisterUser ==
    Registered =>
        \A before \in {load_users(store_call.before)} :
            IF store_call.username \in DOMAIN before
            THEN /\ ~store_call.value[1]
                 /\ users_file = store_call.before
            ELSE /\ store_call.value[1]
                 /\ DOMAIN users_file = DOMAIN before \cup {store_call.username}
                 /\ users_file[store_call.username] =
                       [password |-> hash_password(store_call.password),
                        user_type |-> store_call.user_type,
                        preferences |-> DefaultPreferences,
                        user_data |-> NoUserData]
                 /\ \A other \in DOMAIN before : users_file[other] = before[other]

\* the name of a predefined account was registered with another password
\* after a user had been added to the store
C30_Witness ==
    /\ Registered
    /\ store_call.username = "lsf"
    /\ store_call.password # "123456"
    /\ ~store_call.value[1]
    /\ "zhang" \in DOMAIN users_file

====
